---- MODULE Spec2Model ----
(***************************************************************************)
(* Project Switcher: the Store (DatabaseManager, in its JSON-document and  *)
(* its relational variant) and the Workflow Controller                     *)
(* (ProjectQuickPickProvider) that drives it through prompts.              *)
(*                                                                         *)
(* Strings are sequences of one-character strings, so that trim() is       *)
(* computed.  JavaScript's undefined and null are the one-element          *)
(* sequences Undefined and Null for string-valued slots and NoId for an    *)
(* id-valued slot; the booleans true and false and the integers 1 and 0    *)
(* held by uses_virtual_env are the one-element sequences True, False,     *)
(* One and Zero.                                                           *)
(***************************************************************************)
EXTENDS Integers, Sequences, FiniteSets, TLC

VARIABLES
    backend,            \* which DatabaseManager is bound: "json" or "sql"
    data,               \* the Store's records and identity counters
    file,               \* the JSON variant's backing file
    last,               \* the last Store call: operation and return value
    issuedCategoryIds,  \* history: every category id the Store ever assigned
    issuedProjectIds,   \* history: every project id the Store ever assigned
    wf                  \* the command handlers: position, locals, outcome

store == <<backend, data, file, last, issuedCategoryIds, issuedProjectIds>>

vars == <<backend, data, file, last, issuedCategoryIds, issuedProjectIds, wf>>

---------------------------------------------------------------------------
(* Bounds of the model.                                                    *)

\* Caps on the identity counters, which the code lets grow without limit:
\* on lastCategoryId, on lastProjectId, and on lastProjectId where the
\* projects are created through the add-project command.
MaxCategoryId == 2
MaxProjectId == 2
MaxPromptedProjectId == 1

---------------------------------------------------------------------------
(* JavaScript values.                                                      *)

Undefined == <<"undefined">>
Null == <<"null">>
NoId == -1

Unamed == <<"U", "n", "a", "m", "e", "d">>

\* The boolean and the 0/1 values a project's uses_virtual_env slot holds.
True == <<"true">>
False == <<"false">>
One == <<"1">>
Zero == <<"0">>

\* v === undefined, for the value v of a project's member f.
IsUndefined(f, v) ==
    IF f \in {"id", "category_id"} THEN v = NoId ELSE v = Undefined

\* !s for a string-valued slot: undefined, null and '' are falsy.
Falsy(s) == s = Undefined \/ s = Null \/ s = <<>>

\* !n for an id-valued slot: undefined and 0 are falsy.
FalsyId(n) == n = NoId \/ n = 0

IsSpace(c) == c = " "

RECURSIVE TrimStart(_)
TrimStart(s) ==
    IF s = <<>> THEN <<>>
    ELSE IF IsSpace(Head(s)) THEN TrimStart(Tail(s))
    ELSE s

RECURSIVE TrimEnd(_)
TrimEnd(s) ==
    IF s = <<>> THEN <<>>
    ELSE IF IsSpace(s[Len(s)]) THEN TrimEnd(SubSeq(s, 1, Len(s) - 1))
    ELSE s

\* String.prototype.trim
Trim(s) == TrimEnd(TrimStart(s))

\* Code unit of the characters the model uses (SQLite's BINARY collation).
CharCode(c) ==
    CASE c = " " -> 32
      [] c = "/" -> 47
      [] c = "A" -> 65
      [] c = "B" -> 66
      [] c = "U" -> 85
      [] c = "W" -> 87
      [] c = "a" -> 97
      [] c = "b" -> 98
      [] c = "c" -> 99
      [] c = "d" -> 100
      [] c = "e" -> 101
      [] c = "i" -> 105
      [] c = "k" -> 107
      [] c = "m" -> 109
      [] c = "n" -> 110
      [] c = "p" -> 112
      [] c = "s" -> 115
      [] c = "t" -> 116
      [] c = "v" -> 118
      [] c = "x" -> 120
      [] OTHER -> 127

RECURSIVE StrLeq(_, _)
StrLeq(a, b) ==
    IF a = <<>> THEN TRUE
    ELSE IF b = <<>> THEN FALSE
    ELSE IF CharCode(Head(a)) # CharCode(Head(b))
         THEN CharCode(Head(a)) < CharCode(Head(b))
    ELSE StrLeq(Tail(a), Tail(b))

---------------------------------------------------------------------------
(* Sequence helpers standing for Array.prototype.some / find / filter.     *)

Range(s) == {s[i] : i \in DOMAIN s}

Ids(s) == {s[i].id : i \in DOMAIN s}

Names(s) == {s[i].name : i \in DOMAIN s}

\* Array.prototype.findIndex on the id; 0 stands for -1 (not found).
FindIndexById(s, id) ==
    IF \E i \in DOMAIN s : s[i].id = id
    THEN CHOOSE i \in DOMAIN s :
            /\ s[i].id = id
            /\ \A j \in DOMAIN s : s[j].id = id => i <= j
    ELSE 0

\* Array.prototype.find on the name; 0 when there is none.
FindIndexByName(s, name) ==
    IF \E i \in DOMAIN s : s[i].name = name
    THEN CHOOSE i \in DOMAIN s :
            /\ s[i].name = name
            /\ \A j \in DOMAIN s : s[j].name = name => i <= j
    ELSE 0

ProjectFields ==
    {"name", "language", "path", "uses_virtual_env", "virtual_env_manager",
     "category_id"}

\* The document a Store starts from when there is no (readable) file.
EmptyData ==
    [categories |-> <<>>, projects |-> <<>>,
     lastCategoryId |-> 0, lastProjectId |-> 0]

\* What a Store call hands back: the new records, the return value
\* (ok: the value is not false; rowid: the number returned, 0 when the
\* return value is a boolean), whether _save ran, and whether the Store
\* itself showed an error message.
Outcome(d, ok, rowid, saved, err) ==
    [data |-> d, ok |-> ok, rowid |-> rowid, saved |-> saved, err |-> err]

---------------------------------------------------------------------------
(* The JSON-document Store.                                                *)

\* JSON.stringify of one project: a member whose value is undefined is
\* left out of the document.
StringifyProject(p) ==
    [f \in {g \in DOMAIN p : ~IsUndefined(g, p[g])} |-> p[f]]

\* JSON.stringify(this.data)
JsonStringify(d) ==
    [categories |-> d.categories,
     projects |-> [i \in DOMAIN d.projects |-> StringifyProject(d.projects[i])],
     lastCategoryId |-> d.lastCategoryId,
     lastProjectId |-> d.lastProjectId]

\* Reading a member the document left out yields undefined.
ParseProject(q) ==
    [f \in ProjectFields \cup {"id"} |->
        IF f \in DOMAIN q THEN q[f]
        ELSE IF f \in {"id", "category_id"} THEN NoId
        ELSE Undefined]

\* JSON.parse(raw)
JsonParse(doc) ==
    [categories |-> doc.categories,
     projects |-> [i \in DOMAIN doc.projects |-> ParseProject(doc.projects[i])],
     lastCategoryId |-> doc.lastCategoryId,
     lastProjectId |-> doc.lastProjectId]

NoFile == [kind |-> "absent"]

CorruptFile == [kind |-> "corrupt"]

\* _save: the whole document is rewritten.
SaveFile(d) == [kind |-> "doc", doc |-> JsonStringify(d)]

\* _load
Load(f) ==
    IF f.kind = "doc" THEN JsonParse(f.doc)
    ELSE EmptyData

\* JsonConstructor creating an 'Unamed' category whatever was loaded.
JsonConstructorAlwaysCreates(f) ==
    LET d == Load(f)
        d2 == [d EXCEPT
                 !.lastCategoryId = @ + 1,
                 !.categories =
                     Append(@, [id |-> d.lastCategoryId + 1, name |-> Unamed])]
    IN [data |-> d2, file |-> SaveFile(d2)]

\* JsonConstructor without the block that creates the 'Unamed' category.
JsonConstructorNoSentinel(f) ==
    [data |-> Load(f), file |-> f]

\* constructor: load, then make sure the 'Unamed' category is there.
JsonConstructor(f) ==
    LET d == Load(f) IN
    IF Unamed \notin Names(d.categories)
    THEN LET d2 == [d EXCEPT
                      !.lastCategoryId = @ + 1,
                      !.categories =
                          Append(@, [id |-> d.lastCategoryId + 1, name |-> Unamed])]
         IN [data |-> d2, file |-> SaveFile(d2)]
    ELSE [data |-> d, file |-> f]

\* JsonAddCategory taking the new id from the number of categories instead
\* of from the counter.
JsonAddCategoryIdFromLength(d, name) ==
    IF Falsy(name) THEN Outcome(d, FALSE, 0, FALSE, FALSE)
    ELSE IF Trim(name) \in Names(d.categories)
    THEN Outcome(d, FALSE, 0, FALSE, FALSE)
    ELSE Outcome(
            [d EXCEPT
               !.lastCategoryId = @ + 1,
               !.categories =
                   Append(@, [id |-> Len(d.categories) + 1, name |-> Trim(name)])],
            TRUE, 0, TRUE, FALSE)

JsonAddCategory(d, name) ==
    IF Falsy(name) THEN Outcome(d, FALSE, 0, FALSE, FALSE)
    ELSE IF Trim(name) \in Names(d.categories)
    THEN Outcome(d, FALSE, 0, FALSE, FALSE)
    ELSE Outcome(
            [d EXCEPT
               !.lastCategoryId = @ + 1,
               !.categories =
                   Append(@, [id |-> d.lastCategoryId + 1, name |-> Trim(name)])],
            TRUE, 0, TRUE, FALSE)

JsonGetCategories(d) == d.categories

\* JsonDeleteCategory without the filter on the projects.
JsonDeleteCategoryNoCascade(d, id) ==
    LET cats == SelectSeq(d.categories, LAMBDA c : c.id # id)
    IN Outcome([d EXCEPT !.categories = cats],
               Len(d.categories) # Len(cats), 0, TRUE, FALSE)

JsonDeleteCategory(d, id) ==
    LET cats == SelectSeq(d.categories, LAMBDA c : c.id # id)
        projs == SelectSeq(d.projects, LAMBDA p : p.category_id # id)
    IN Outcome([d EXCEPT !.categories = cats, !.projects = projs],
               Len(d.categories) # Len(cats), 0, TRUE, FALSE)

JsonAddProject(d, project) ==
    LET unamed == FindIndexByName(d.categories, Unamed)
        categoryId ==
            IF FalsyId(project.category_id) /\ unamed # 0
            THEN d.categories[unamed].id
            ELSE project.category_id
    IN IF Falsy(project.name) \/ Falsy(project.path)
       THEN Outcome(d, FALSE, 0, FALSE, FALSE)
       ELSE Outcome(
               [d EXCEPT
                  !.lastProjectId = @ + 1,
                  !.projects =
                      Append(@, [f \in ProjectFields \cup {"id"} |->
                                    IF f = "id" THEN d.lastProjectId + 1
                                    ELSE IF f = "category_id" THEN categoryId
                                    ELSE project[f]])],
               TRUE, 0, TRUE, FALSE)

\* JsonGetProjects giving every project the name of the first category.
JsonGetProjectsFirstCategory(d) ==
    [i \in DOMAIN d.projects |->
        LET p == d.projects[i]
        IN [f \in DOMAIN p \cup {"category_name"} |->
               IF f = "category_name"
               THEN IF d.categories = <<>> THEN Undefined
                    ELSE d.categories[1].name
               ELSE p[f]]]

\* getProjects: each project with the name of the category it refers to
\* (undefined when there is none).
JsonGetProjects(d) ==
    [i \in DOMAIN d.projects |->
        LET p == d.projects[i]
            c == FindIndexById(d.categories, p.category_id)
        IN [f \in DOMAIN p \cup {"category_name"} |->
               IF f = "category_name"
               THEN IF c = 0 THEN Undefined ELSE d.categories[c].name
               ELSE p[f]]]

\* getProject: the record, or NoProject for undefined.
NoProject == [id |-> NoId]

JsonGetProject(d, id) ==
    LET i == FindIndexById(d.projects, id)
    IN IF i = 0 THEN NoProject ELSE d.projects[i]

\* updateProject: { ...old, ...project }; project maps the supplied field
\* names to their values.
JsonUpdateProject(d, id, project) ==
    LET idx == FindIndexById(d.projects, id) IN
    IF idx = 0 THEN Outcome(d, FALSE, 0, FALSE, FALSE)
    ELSE Outcome(
            [d EXCEPT
               !.projects[idx] =
                   [f \in DOMAIN @ |->
                       IF f \in DOMAIN project THEN project[f] ELSE @[f]]],
            TRUE, 0, TRUE, FALSE)

JsonDeleteProject(d, id) ==
    LET projs == SelectSeq(d.projects, LAMBDA p : p.id # id)
    IN Outcome([d EXCEPT !.projects = projs],
               Len(d.projects) # Len(projs), 0, TRUE, FALSE)

\* JsonEditCategory replacing the category by a new one of the next id.
JsonEditCategoryAsNew(d, id, newName) ==
    LET idx == FindIndexById(d.categories, id) IN
    IF Falsy(newName) THEN Outcome(d, FALSE, 0, FALSE, FALSE)
    ELSE IF idx = 0 THEN Outcome(d, FALSE, 0, FALSE, FALSE)
    ELSE IF \E i \in DOMAIN d.categories :
                d.categories[i].name = Trim(newName) /\ d.categories[i].id # id
    THEN Outcome(d, FALSE, 0, FALSE, FALSE)
    ELSE Outcome([d EXCEPT !.categories[idx] =
                               [id |-> d.lastCategoryId + 1,
                                name |-> Trim(newName)],
                           !.lastCategoryId = @ + 1],
                 TRUE, 0, TRUE, FALSE)

\* JsonEditCategory storing newName as it is given.
JsonEditCategoryNoTrim(d, id, newName) ==
    LET idx == FindIndexById(d.categories, id) IN
    IF Falsy(newName) THEN Outcome(d, FALSE, 0, FALSE, FALSE)
    ELSE IF idx = 0 THEN Outcome(d, FALSE, 0, FALSE, FALSE)
    ELSE IF \E i \in DOMAIN d.categories :
                d.categories[i].name = Trim(newName) /\ d.categories[i].id # id
    THEN Outcome(d, FALSE, 0, FALSE, FALSE)
    ELSE Outcome([d EXCEPT !.categories[idx].name = newName],
                 TRUE, 0, TRUE, FALSE)

\* JsonEditCategory without the check for another category of that name.
JsonEditCategoryNoDuplicateCheck(d, id, newName) ==
    LET idx == FindIndexById(d.categories, id) IN
    IF Falsy(newName) THEN Outcome(d, FALSE, 0, FALSE, FALSE)
    ELSE IF idx = 0 THEN Outcome(d, FALSE, 0, FALSE, FALSE)
    ELSE Outcome([d EXCEPT !.categories[idx].name = Trim(newName)],
                 TRUE, 0, TRUE, FALSE)

JsonEditCategory(d, id, newName) ==
    LET idx == FindIndexById(d.categories, id) IN
    IF Falsy(newName) THEN Outcome(d, FALSE, 0, FALSE, FALSE)
    ELSE IF idx = 0 THEN Outcome(d, FALSE, 0, FALSE, FALSE)
    ELSE IF \E i \in DOMAIN d.categories :
                d.categories[i].name = Trim(newName) /\ d.categories[i].id # id
    THEN Outcome(d, FALSE, 0, FALSE, FALSE)
    ELSE Outcome([d EXCEPT !.categories[idx].name = Trim(newName)],
                 TRUE, 0, TRUE, FALSE)

---------------------------------------------------------------------------
(* The relational Store (better-sqlite3).  data.categories and             *)
(* data.projects are the rows of the tables category and project in rowid  *)
(* order; data.lastCategoryId and data.lastProjectId are the AUTOINCREMENT *)
(* sequences.  A statement that throws is caught by the method, which      *)
(* shows an error message and returns false.                               *)

SqlFail(d) == Outcome(d, FALSE, 0, FALSE, TRUE)

\* INSERT INTO category (name) VALUES (?): name is UNIQUE, compared as
\* stored.
SqlAddCategory(d, name) ==
    IF Falsy(name) THEN SqlFail(d)
    ELSE IF name \in Names(d.categories) THEN SqlFail(d)
    ELSE Outcome(
            [d EXCEPT
               !.lastCategoryId = @ + 1,
               !.categories =
                   Append(@, [id |-> d.lastCategoryId + 1, name |-> name])],
            TRUE, d.lastCategoryId + 1, FALSE, FALSE)

\* Insertion sort on the name: ORDER BY name.
RECURSIVE InsertByName(_, _)
InsertByName(sorted, r) ==
    IF sorted = <<>> THEN <<r>>
    ELSE IF StrLeq(r.name, Head(sorted).name) THEN <<r>> \o sorted
    ELSE <<Head(sorted)>> \o InsertByName(Tail(sorted), r)

RECURSIVE OrderByName(_)
OrderByName(rows) ==
    IF rows = <<>> THEN <<>>
    ELSE InsertByName(OrderByName(SubSeq(rows, 1, Len(rows) - 1)), rows[Len(rows)])

\* SELECT id, name FROM category ORDER BY name
SqlGetCategories(d) == OrderByName(d.categories)

\* DELETE FROM category WHERE id = ?, with ON DELETE CASCADE on
\* project.category_id; returns true whether or not a row matched.
SqlDeleteCategory(d, id) ==
    Outcome([d EXCEPT
               !.categories = SelectSeq(@, LAMBDA c : c.id # id),
               !.projects = SelectSeq(@, LAMBDA p : p.category_id # id)],
            TRUE, 0, FALSE, FALSE)

\* INSERT INTO project ...: language is required, uses_virtual_env must be
\* a boolean and is stored as 1 or 0, virtual_env_manager || null, and
\* category_id must be a number that names a category (foreign key).
SqlAddProject(d, project) ==
    IF \/ Falsy(project.name)
       \/ Falsy(project.language)
       \/ Falsy(project.path)
       \/ project.uses_virtual_env \notin {True, False}
       \/ project.category_id = NoId
    THEN SqlFail(d)
    ELSE IF project.category_id \notin Ids(d.categories) THEN SqlFail(d)
    ELSE Outcome(
            [d EXCEPT
               !.lastProjectId = @ + 1,
               !.projects =
                   Append(@,
                       [id |-> d.lastProjectId + 1,
                        name |-> project.name,
                        language |-> project.language,
                        path |-> project.path,
                        uses_virtual_env |->
                            IF project.uses_virtual_env = True THEN One ELSE Zero,
                        virtual_env_manager |->
                            IF Falsy(project.virtual_env_manager) THEN Null
                            ELSE project.virtual_env_manager,
                        category_id |-> project.category_id])],
            TRUE, d.lastProjectId + 1, FALSE, FALSE)

\* SELECT p.*, c.name as category_name FROM project p JOIN category c ...
\* (rows in rowid order; the ORDER BY is left to the caller's grouping).
SqlGetProjects(d) ==
    LET joined == SelectSeq(d.projects,
                            LAMBDA p : p.category_id \in Ids(d.categories))
    IN [i \in DOMAIN joined |->
           LET p == joined[i]
               c == FindIndexById(d.categories, p.category_id)
           IN [f \in DOMAIN p \cup {"category_name"} |->
                  IF f = "category_name" THEN d.categories[c].name ELSE p[f]]]

\* better-sqlite3 binds numbers, strings, bigints, buffers and null; a
\* boolean or undefined parameter throws.
Bindable(f, v) ==
    /\ ~IsUndefined(f, v)
    /\ f \in {"id", "category_id"} \/ v \notin {True, False}

\* UPDATE project SET <fields> WHERE id = ?: fails on an empty field set,
\* an unbindable value or a violated constraint of a matched row; returns
\* true whether or not a row matched.
SqlUpdateProject(d, id, project) ==
    LET idx == FindIndexById(d.projects, id) IN
    IF DOMAIN project = {} THEN SqlFail(d)
    ELSE IF \E f \in DOMAIN project : ~Bindable(f, project[f]) THEN SqlFail(d)
    ELSE IF idx = 0 THEN Outcome(d, TRUE, 0, FALSE, FALSE)
    ELSE IF \/ \E f \in DOMAIN project \cap {"name", "language", "path",
                                               "uses_virtual_env"} :
                  project[f] = Null
            \/ /\ "category_id" \in DOMAIN project
               /\ project["category_id"] \notin Ids(d.categories)
    THEN SqlFail(d)
    ELSE Outcome(
            [d EXCEPT
               !.projects[idx] =
                   [f \in DOMAIN @ |->
                       IF f \in DOMAIN project THEN project[f] ELSE @[f]]],
            TRUE, 0, FALSE, FALSE)

\* DELETE FROM project WHERE id = ?; returns true whether or not a row
\* matched.
SqlDeleteProject(d, id) ==
    Outcome([d EXCEPT !.projects = SelectSeq(@, LAMBDA p : p.id # id)],
            TRUE, 0, FALSE, FALSE)

---------------------------------------------------------------------------
(* The Store the Workflow Controller is bound to: one of the two           *)
(* DatabaseManager classes.                                                *)

StoreAddCategory(b, d, name) ==
    IF b = "json" THEN JsonAddCategory(d, name) ELSE SqlAddCategory(d, name)

StoreGetCategories(b, d) ==
    IF b = "json" THEN JsonGetCategories(d) ELSE SqlGetCategories(d)

StoreDeleteCategory(b, d, id) ==
    IF b = "json" THEN JsonDeleteCategory(d, id) ELSE SqlDeleteCategory(d, id)

StoreAddProject(b, d, project) ==
    IF b = "json" THEN JsonAddProject(d, project) ELSE SqlAddProject(d, project)

StoreGetProjects(b, d) ==
    IF b = "json" THEN JsonGetProjects(d) ELSE SqlGetProjects(d)

StoreUpdateProject(b, d, id, project) ==
    IF b = "json" THEN JsonUpdateProject(d, id, project)
    ELSE SqlUpdateProject(d, id, project)

StoreDeleteProject(b, d, id) ==
    IF b = "json" THEN JsonDeleteProject(d, id) ELSE SqlDeleteProject(d, id)

---------------------------------------------------------------------------
(* Inputs of the Store calls.                                              *)

Api == <<"A", "p", "i">>
Backend == <<"B", "a", "c", "k", "e", "n", "d">>
Web == <<"W", "e", "b">>
PathX == <<"/", "x">>
Ts == <<"t", "s">>
Venv == <<"v", "e", "n", "v">>
PathY == <<"/", "y">>

NameInputs == {<<>>, <<" ">>, <<"A">>, <<" ", "A">>, Unamed}

CategoryIdInputs == 1..MaxCategoryId

ProjectIdInputs == 1..MaxProjectId

\* A project with only the required members and a category_id:
\* { name: 'Api', path: '/x', category_id: c }.
MinimalProject(c) ==
    [name |-> Api, language |-> Undefined, path |-> PathX,
     uses_virtual_env |-> Undefined, virtual_env_manager |-> Undefined,
     category_id |-> c]

\* Projects handed to addProject: an empty or a non-empty name and path; a
\* category_id left out, naming a category or naming none.
ProjectInputs ==
    {[name |-> n, language |-> Ts, path |-> p, uses_virtual_env |-> True,
      virtual_env_manager |-> Venv, category_id |-> c] :
        n \in {<<>>, Api}, p \in {<<>>, PathX},
        c \in {NoId} \cup CategoryIdInputs}

\* Field sets handed to updateProject: the empty set, or a category_id
\* naming a category or none.
UpdateInputs ==
    {<<>>} \cup {[category_id |-> c] : c \in CategoryIdInputs}

\* Projects handed to addProject where the projects are looked at member
\* by member: those of ProjectInputs, and those without optional members.
AnyProjectInputs ==
    ProjectInputs \cup {MinimalProject(c) : c \in CategoryIdInputs}

\* Field sets handed to updateProject where the projects are looked at
\* member by member: the empty set, two members at once (a
\* virtual_env_manager together with uses_virtual_env false), or a
\* category_id.
FieldSetInputs ==
    {<<>>, [uses_virtual_env |-> False, virtual_env_manager |-> Venv]}
        \cup {[category_id |-> c] : c \in CategoryIdInputs}

\* Projects handed to addProject where the menu is looked at: an empty
\* path or one of two paths; a category_id left out, naming a category or
\* naming none.
MenuProjectInputs ==
    {[name |-> Api, language |-> Ts, path |-> p, uses_virtual_env |-> False,
      virtual_env_manager |-> Undefined, category_id |-> c] :
        p \in {<<>>, PathX, PathY}, c \in {NoId} \cup CategoryIdInputs}

---------------------------------------------------------------------------
(* The Store's operations as steps.                                        *)

\* A call of operation op with outcome r: the records, the file when _save
\* ran, the call's return value, and the history of assigned ids.
Call(op, r) ==
    /\ r.data.lastCategoryId <= MaxCategoryId
    /\ r.data.lastProjectId <= MaxProjectId
    /\ data' = r.data
    /\ file' = IF r.saved THEN SaveFile(r.data) ELSE file
    /\ last' = [op |-> op, ok |-> r.ok, rowid |-> r.rowid, err |-> r.err]
    /\ issuedCategoryIds' =
           issuedCategoryIds \cup (Ids(r.data.categories) \ Ids(data.categories))
    /\ issuedProjectIds' =
           issuedProjectIds \cup (Ids(r.data.projects) \ Ids(data.projects))
    /\ UNCHANGED backend

CallAddCategory(name) ==
    /\ Call("addCategory", StoreAddCategory(backend, data, name))
    /\ UNCHANGED wf

CallDeleteCategory(id) ==
    /\ Call("deleteCategory", StoreDeleteCategory(backend, data, id))
    /\ UNCHANGED wf

\* Only the JSON-document Store has editCategory.
CallEditCategory(id, newName) ==
    /\ backend = "json"
    /\ Call("editCategory", JsonEditCategory(data, id, newName))
    /\ UNCHANGED wf

CallAddProject(project) ==
    /\ Call("addProject", StoreAddProject(backend, data, project))
    /\ UNCHANGED wf

CallUpdateProject(id, project) ==
    /\ Call("updateProject", StoreUpdateProject(backend, data, id, project))
    /\ UNCHANGED wf

CallDeleteProject(id) ==
    /\ Call("deleteProject", StoreDeleteProject(backend, data, id))
    /\ UNCHANGED wf

AddCategory == \E name \in NameInputs : CallAddCategory(name)

DeleteCategory == \E id \in CategoryIdInputs : CallDeleteCategory(id)

EditCategory ==
    \E id \in CategoryIdInputs, newName \in NameInputs :
        CallEditCategory(id, newName)

AddProject == \E project \in ProjectInputs : CallAddProject(project)

UpdateProject ==
    \E id \in ProjectIdInputs, project \in UpdateInputs :
        CallUpdateProject(id, project)

DeleteProject == \E id \in ProjectIdInputs : CallDeleteProject(id)

\* The same calls with the inputs of the claims about projects: one
\* category name, projects with and without their optional members, and
\* field sets of more than one member.
AddBackendCategory == CallAddCategory(Backend)

AddAnyProject ==
    \E project \in AnyProjectInputs : CallAddProject(project)

UpdateAnyProject ==
    \E id \in ProjectIdInputs, project \in FieldSetInputs :
        CallUpdateProject(id, project)

---------------------------------------------------------------------------
(* The Workflow Controller (ProjectQuickPickProvider).  A handler runs     *)
(* from one await to the next in one step: wf[w].pc names the prompt the   *)
(* handler of slot w waits at, and the step that answers a prompt runs the *)
(* code up to the next prompt or to the handler's return.  The outcome     *)
(* fields count, for the invocation, the mutating Store calls made, the    *)
(* error and information messages shown (by the handler or by the Store),  *)
(* and record whether some prompt came back without an answer, the prompt  *)
(* the handler was at when it returned ("idle": before its first prompt),  *)
(* and what became of the workspace descriptor file.                       *)

Sim == <<"S", "i", "m">>
\* 'Não'
Nao == <<"N", "a", "o">>
SemCategoria ==
    <<"S", "e", "m", " ", "C", "a", "t", "e", "g", "o", "r", "i", "a">>

Slots == {1, 2}

\* What showQuickPick yields when the pick is dismissed.
NoPick == [id |-> NoId]

IdleWf ==
    [cmd |-> "idle", pc |-> "idle", items |-> <<>>,
     categoryPick |-> NoPick, projectPick |-> NoProject,
     name |-> Undefined, language |-> Undefined, path |-> Undefined,
     uses |-> Undefined, env |-> Undefined,
     calls |-> 0, noAnswer |-> FALSE, errors |-> 0, infos |-> 0,
     opened |-> Undefined, at |-> "idle", workspace |-> "none"]

\* Answers to the prompts.  The category-name boxes validate their input,
\* so they yield undefined or a text that is not blank.
CategoryNameAnswers == {Undefined, <<" ", "A">>, <<"B">>}
ProjectNameAnswers == {Undefined, <<" ">>, Api}
LanguageAnswers == {Undefined, <<>>, Ts}
PathAnswers == {Undefined, PathX}
YesNoAnswers == {Undefined, Sim, Nao}
EnvAnswers == {Undefined, Venv}

\* Outcomes of creating the workspace descriptor file.
FsOutcomes == {"exists", "written", "throws"}

At(w, cmd, pc) == wf[w].cmd = cmd /\ wf[w].pc = pc

Set(w, s) == wf' = [wf EXCEPT ![w] = s]

\* The handler has returned: its locals are gone, its outcome stays.
Ended(s) ==
    [IdleWf EXCEPT !.cmd = s.cmd, !.pc = "done", !.calls = s.calls,
                   !.noAnswer = s.noAnswer, !.errors = s.errors,
                   !.infos = s.infos, !.opened = s.opened, !.at = s.pc,
                   !.workspace = s.workspace]

\* Cancel with an error message shown before the return.
CancelWithError(w) ==
    /\ Set(w, Ended([wf[w] EXCEPT !.noAnswer = TRUE, !.errors = @ + 1]))
    /\ UNCHANGED store

\* if (!answer) return false;
Cancel(w) ==
    /\ Set(w, Ended([wf[w] EXCEPT !.noAnswer = TRUE]))
    /\ UNCHANGED store

\* StoreCall with the handler staying at its prompt after a false result.
StoreCallAgainOnFailure(w, s, op, r, failNote) ==
    /\ Call(op, r)
    /\ IF r.ok
       THEN Set(w, Ended([s EXCEPT !.calls = @ + 1, !.infos = @ + 1]))
       ELSE Set(w, [wf[w] EXCEPT !.calls = @ + 1])

\* The handler's Store call and the return that follows it: a false result
\* ends the handler (with an error message when failNote), any other
\* result shows the success message.
StoreCall(w, s, op, r, failNote) ==
    /\ Call(op, r)
    /\ Set(w, Ended([s EXCEPT
                       !.calls = @ + 1,
                       !.errors = @ + (IF r.err THEN 1 ELSE 0)
                                    + (IF ~r.ok /\ failNote THEN 1 ELSE 0),
                       !.infos = @ + (IF r.ok THEN 1 ELSE 0)]))

\* categories.map(c => ({ label: c.name, id: c.id }))
CategoryItems(categories) ==
    [i \in DOMAIN categories |->
        [label |-> categories[i].name, id |-> categories[i].id]]

\* LoadCategories without 'if (categories.length === 0)'.
LoadCategoriesUnchecked(w, cmd) ==
    /\ wf[w].pc = "idle"
    /\ Set(w, [IdleWf EXCEPT !.cmd = cmd, !.pc = "category",
                             !.items = CategoryItems(StoreGetCategories(backend, data))])
    /\ UNCHANGED store

\* getCategories(), 'Nenhuma categoria cadastrada.' when there is none,
\* else the category pick.
LoadCategories(w, cmd) ==
    /\ wf[w].pc = "idle"
    /\ LET categories == StoreGetCategories(backend, data) IN
       IF Len(categories) = 0
       THEN Set(w, Ended([IdleWf EXCEPT !.cmd = cmd, !.errors = 1]))
       ELSE Set(w, [IdleWf EXCEPT !.cmd = cmd, !.pc = "category",
                                  !.items = CategoryItems(categories)])
    /\ UNCHANGED store

\* getProjects(), 'Nenhum projeto cadastrado.' when there is none, else the
\* project pick.
LoadProjects(w, cmd) ==
    /\ wf[w].pc = "idle"
    /\ LET projects == StoreGetProjects(backend, data) IN
       IF Len(projects) = 0
       THEN Set(w, Ended([IdleWf EXCEPT !.cmd = cmd, !.errors = 1]))
       ELSE Set(w, [IdleWf EXCEPT !.cmd = cmd, !.pc = "project",
                                  !.items = projects])
    /\ UNCHANGED store

\* A pick among the items shown, or none.
Picks(w) == {NoPick} \cup Range(wf[w].items)

(* showProjectMenu *)

\* proj.category_name ?? "Sem Categoria"
CategoryKey(proj) ==
    IF proj.category_name \in {Undefined, Null} THEN SemCategoria
    ELSE proj.category_name

StartShowProjectMenu(w) ==
    /\ wf[w].pc = "idle"
    /\ Set(w, [IdleWf EXCEPT !.cmd = "showProjectMenu", !.pc = "category",
                             !.items = StoreGetProjects(backend, data)])
    /\ UNCHANGED store

\* categoriesMap: under each category key the projects that have it, in
\* the order they were loaded.
CategoriesMap(projects) ==
    [k \in {CategoryKey(p) : p \in Range(projects)} |->
        SelectSeq(projects, LAMBDA p : CategoryKey(p) = k)]

\* MenuCategory with every loaded project offered in the second pick.
MenuCategoryAllProjects(w) ==
    /\ At(w, "showProjectMenu", "category")
    /\ \E label \in {Undefined} \cup DOMAIN CategoriesMap(wf[w].items) :
          IF label = Undefined THEN Cancel(w)
          ELSE /\ Set(w, [wf[w] EXCEPT
                            !.pc = "project",
                            !.categoryPick = [label |-> label, id |-> NoId]])
               /\ UNCHANGED store

\* The category pick among the keys of categoriesMap, then
\* categoriesMap.get(categoryPick.label) for the project pick.
MenuCategory(w) ==
    /\ At(w, "showProjectMenu", "category")
    /\ \E label \in {Undefined} \cup DOMAIN CategoriesMap(wf[w].items) :
          IF label = Undefined THEN Cancel(w)
          ELSE /\ Set(w, [wf[w] EXCEPT
                            !.pc = "project",
                            !.categoryPick = [label |-> label, id |-> NoId],
                            !.items = CategoriesMap(wf[w].items)[label]])
               /\ UNCHANGED store

\* openProject(projectPick.project.path): an empty path is refused with an
\* error message.
MenuProject(w) ==
    /\ At(w, "showProjectMenu", "project")
    /\ \E pick \in Picks(w) :
          IF pick = NoPick THEN Set(w, Ended([wf[w] EXCEPT !.noAnswer = TRUE]))
          ELSE IF Falsy(pick.path)
               THEN Set(w, Ended([wf[w] EXCEPT !.errors = @ + 1]))
               ELSE Set(w, Ended([wf[w] EXCEPT !.opened = pick.path]))
    /\ UNCHANGED store

(* addCategory *)

StartAddCategory(w) ==
    /\ wf[w].pc = "idle"
    /\ Set(w, [IdleWf EXCEPT !.cmd = "addCategory", !.pc = "name"])
    /\ UNCHANGED store

AddCategoryName(w) ==
    /\ At(w, "addCategory", "name")
    /\ \E name \in CategoryNameAnswers :
          IF Falsy(name) THEN Cancel(w)
          ELSE StoreCall(w, wf[w], "addCategory",
                         StoreAddCategory(backend, data, Trim(name)), FALSE)

(* addProject *)

StartAddProject(w) == LoadCategories(w, "addProject")

AddProjectCategory(w) ==
    /\ At(w, "addProject", "category")
    /\ \E pick \in Picks(w) :
          IF pick = NoPick THEN Cancel(w)
          ELSE /\ Set(w, [wf[w] EXCEPT !.pc = "name", !.categoryPick = pick,
                                       !.items = <<>>])
               /\ UNCHANGED store

AddProjectName(w) ==
    /\ At(w, "addProject", "name")
    /\ \E name \in ProjectNameAnswers :
          IF Falsy(name) THEN Cancel(w)
          ELSE /\ Set(w, [wf[w] EXCEPT !.pc = "language", !.name = name])
               /\ UNCHANGED store

AddProjectLanguage(w) ==
    /\ At(w, "addProject", "language")
    /\ \E language \in LanguageAnswers :
          IF Falsy(language) THEN Cancel(w)
          ELSE /\ Set(w, [wf[w] EXCEPT !.pc = "path", !.language = language])
               /\ UNCHANGED store

AddProjectPath(w) ==
    /\ At(w, "addProject", "path")
    /\ \E projectPath \in PathAnswers :
          IF Falsy(projectPath) THEN Cancel(w)
          ELSE /\ Set(w, [wf[w] EXCEPT !.pc = "uses", !.path = projectPath])
               /\ UNCHANGED store

\* The fields the handlers hand to addProject and updateProject.
PromptedFields(s) ==
    [name |-> Trim(s.name),
     language |-> Trim(s.language),
     path |-> Trim(s.path),
     uses_virtual_env |-> IF s.uses = Sim THEN True ELSE False,
     virtual_env_manager |-> IF Falsy(s.env) THEN Undefined ELSE Trim(s.env),
     category_id |-> s.categoryPick.id]

\* this.dbManager.addProject(...), then the .code-workspace file: a throw
\* of the file system calls lands in the handler's catch.
AddProjectStore(w, s) ==
    LET r == StoreAddProject(backend, data, PromptedFields(s)) IN
    /\ r.data.lastProjectId <= MaxPromptedProjectId
    /\ Call("addProject", r)
    /\ IF ~r.ok
       THEN Set(w, Ended([s EXCEPT !.calls = @ + 1,
                                   !.errors = @ + (IF r.err THEN 1 ELSE 0)]))
       ELSE \E fs \in FsOutcomes :
               IF fs = "throws"
               THEN Set(w, Ended([s EXCEPT !.calls = @ + 1, !.errors = @ + 1,
                                           !.workspace = fs]))
               ELSE Set(w, Ended([s EXCEPT !.calls = @ + 1, !.infos = @ + 1,
                                           !.workspace = fs]))

\* The answer of the 'Utiliza virtual env?' pick is not tested for
\* undefined: anything but 'Sim' goes on to the Store call.
AddProjectUses(w) ==
    /\ At(w, "addProject", "uses")
    /\ \E usesVirtualEnv \in YesNoAnswers :
          IF usesVirtualEnv = Sim
          THEN /\ Set(w, [wf[w] EXCEPT !.pc = "env", !.uses = usesVirtualEnv])
               /\ UNCHANGED store
          ELSE AddProjectStore(w, [wf[w] EXCEPT
                                     !.uses = usesVirtualEnv,
                                     !.noAnswer = (usesVirtualEnv = Undefined)])

AddProjectEnv(w) ==
    /\ At(w, "addProject", "env")
    /\ \E envManager \in EnvAnswers :
          IF Falsy(envManager) THEN Cancel(w)
          ELSE AddProjectStore(w, [wf[w] EXCEPT !.env = envManager])

(* editProject *)

StartEditProject(w) == LoadProjects(w, "editProject")

EditProjectPick(w) ==
    /\ At(w, "editProject", "project")
    /\ \E pick \in Picks(w) :
          IF pick = NoPick THEN Cancel(w)
          ELSE /\ Set(w, [wf[w] EXCEPT !.pc = "name", !.projectPick = pick,
                                       !.items = <<>>])
               /\ UNCHANGED store

\* EditProjectNameAnswer without 'if (!name) return false'.
EditProjectNameAnswerUnchecked(w, name) ==
    /\ At(w, "editProject", "name")
    /\ Set(w, [wf[w] EXCEPT !.pc = "language", !.name = name])
    /\ UNCHANGED store

\* The 'Nome do projeto' box of the edit has come back with name.
EditProjectNameAnswer(w, name) ==
    /\ At(w, "editProject", "name")
    /\ IF Falsy(name) THEN Cancel(w)
       ELSE /\ Set(w, [wf[w] EXCEPT !.pc = "language", !.name = name])
            /\ UNCHANGED store

EditProjectName(w) ==
    \E name \in ProjectNameAnswers : EditProjectNameAnswer(w, name)

EditProjectLanguage(w) ==
    /\ At(w, "editProject", "language")
    /\ \E language \in LanguageAnswers :
          IF Falsy(language) THEN Cancel(w)
          ELSE /\ Set(w, [wf[w] EXCEPT !.pc = "path", !.language = language])
               /\ UNCHANGED store

EditProjectPath(w) ==
    /\ At(w, "editProject", "path")
    /\ \E projectPath \in PathAnswers :
          IF Falsy(projectPath) THEN Cancel(w)
          ELSE /\ Set(w, [wf[w] EXCEPT !.pc = "uses", !.path = projectPath])
               /\ UNCHANGED store

\* getCategories() and the category pick that ends the edit.
EditProjectCategories(w, s) ==
    /\ Set(w, [s EXCEPT !.pc = "category",
                        !.items = CategoryItems(StoreGetCategories(backend, data))])
    /\ UNCHANGED store

\* let envManager = project.virtual_env_manager, replaced by the answer
\* only when the pick was 'Sim'.
EditProjectUses(w) ==
    /\ At(w, "editProject", "uses")
    /\ \E usesVirtualEnv \in YesNoAnswers :
          IF usesVirtualEnv = Sim
          THEN /\ Set(w, [wf[w] EXCEPT !.pc = "env", !.uses = usesVirtualEnv])
               /\ UNCHANGED store
          ELSE EditProjectCategories(w,
                  [wf[w] EXCEPT
                     !.uses = usesVirtualEnv,
                     !.env = wf[w].projectPick.virtual_env_manager,
                     !.noAnswer = (usesVirtualEnv = Undefined)])

EditProjectEnv(w) ==
    /\ At(w, "editProject", "env")
    /\ \E envManager \in EnvAnswers :
          IF Falsy(envManager) THEN Cancel(w)
          ELSE EditProjectCategories(w, [wf[w] EXCEPT !.env = envManager])

EditProjectCategory(w) ==
    /\ At(w, "editProject", "category")
    /\ \E pick \in Picks(w) :
          IF pick = NoPick THEN Cancel(w)
          ELSE LET s == [wf[w] EXCEPT !.categoryPick = pick] IN
               StoreCall(w, s, "updateProject",
                         StoreUpdateProject(backend, data, s.projectPick.id,
                                            PromptedFields(s)),
                         FALSE)

(* deleteProject *)

StartDeleteProject(w) == LoadProjects(w, "deleteProject")

DeleteProjectPick(w) ==
    /\ At(w, "deleteProject", "project")
    /\ \E pick \in Picks(w) :
          IF pick = NoPick THEN Cancel(w)
          ELSE /\ Set(w, [wf[w] EXCEPT !.pc = "confirm", !.projectPick = pick,
                                       !.items = <<>>])
               /\ UNCHANGED store

\* DeleteProjectConfirmAnswer with 'if (confirm === 'Não') return false'.
DeleteProjectConfirmAnswerUnlessNao(w, confirm) ==
    /\ At(w, "deleteProject", "confirm")
    /\ IF confirm = Nao
       THEN /\ Set(w, Ended(wf[w]))
            /\ UNCHANGED store
       ELSE StoreCall(w, [wf[w] EXCEPT !.noAnswer = (confirm = Undefined)],
                      "deleteProject",
                      StoreDeleteProject(backend, data, wf[w].projectPick.id),
                      FALSE)

\* The confirmation pick has come back with confirm:
\* if (confirm !== 'Sim') return false;
DeleteProjectConfirmAnswer(w, confirm) ==
    /\ At(w, "deleteProject", "confirm")
    /\ IF confirm # Sim
       THEN /\ Set(w, Ended([wf[w] EXCEPT
                               !.noAnswer = (confirm = Undefined)]))
            /\ UNCHANGED store
       ELSE StoreCall(w, wf[w], "deleteProject",
                      StoreDeleteProject(backend, data, wf[w].projectPick.id),
                      FALSE)

DeleteProjectConfirm(w) ==
    \E confirm \in YesNoAnswers : DeleteProjectConfirmAnswer(w, confirm)

(* deleteCategory *)

StartDeleteCategory(w) == LoadCategories(w, "deleteCategory")

DeleteCategoryPick(w) ==
    /\ At(w, "deleteCategory", "category")
    /\ \E pick \in Picks(w) :
          IF pick = NoPick THEN Cancel(w)
          ELSE /\ Set(w, [wf[w] EXCEPT !.pc = "confirm", !.categoryPick = pick,
                                       !.items = <<>>])
               /\ UNCHANGED store

DeleteCategoryConfirmAnswer(w, confirm) ==
    /\ At(w, "deleteCategory", "confirm")
    /\ IF confirm # Sim
       THEN /\ Set(w, Ended([wf[w] EXCEPT
                               !.noAnswer = (confirm = Undefined)]))
            /\ UNCHANGED store
       ELSE StoreCall(w, wf[w], "deleteCategory",
                      StoreDeleteCategory(backend, data, wf[w].categoryPick.id),
                      FALSE)

DeleteCategoryConfirm(w) ==
    \E confirm \in YesNoAnswers : DeleteCategoryConfirmAnswer(w, confirm)

(* editCategory *)

StartEditCategory(w) == LoadCategories(w, "editCategory")

EditCategoryPick(w) ==
    /\ At(w, "editCategory", "category")
    /\ \E pick \in Picks(w) :
          IF pick = NoPick THEN Cancel(w)
          ELSE /\ Set(w, [wf[w] EXCEPT !.pc = "name", !.categoryPick = pick,
                                       !.items = <<>>])
               /\ UNCHANGED store

\* The relational DatabaseManager has no editCategory: the call throws and
\* the handler's catch shows the error.
EditCategoryName(w) ==
    /\ At(w, "editCategory", "name")
    /\ \E newName \in CategoryNameAnswers :
          IF Falsy(newName) THEN Cancel(w)
          ELSE IF backend = "json"
          THEN StoreCall(w, wf[w], "editCategory",
                         JsonEditCategory(data, wf[w].categoryPick.id,
                                          Trim(newName)),
                         TRUE)
          ELSE /\ Set(w, Ended([wf[w] EXCEPT !.errors = @ + 1]))
               /\ UNCHANGED store

\* The command has completed; the slot is free for the next command.
Return(w) ==
    /\ wf[w].pc = "done"
    /\ Set(w, IdleWf)
    /\ UNCHANGED store

Workflow(w) ==
    \/ StartShowProjectMenu(w)
    \/ MenuCategory(w)
    \/ MenuProject(w)
    \/ StartAddCategory(w)
    \/ AddCategoryName(w)
    \/ StartAddProject(w)
    \/ AddProjectCategory(w)
    \/ AddProjectName(w)
    \/ AddProjectLanguage(w)
    \/ AddProjectPath(w)
    \/ AddProjectUses(w)
    \/ AddProjectEnv(w)
    \/ StartEditProject(w)
    \/ EditProjectPick(w)
    \/ EditProjectName(w)
    \/ EditProjectLanguage(w)
    \/ EditProjectPath(w)
    \/ EditProjectUses(w)
    \/ EditProjectEnv(w)
    \/ EditProjectCategory(w)
    \/ StartDeleteProject(w)
    \/ DeleteProjectPick(w)
    \/ DeleteProjectConfirm(w)
    \/ StartDeleteCategory(w)
    \/ DeleteCategoryPick(w)
    \/ DeleteCategoryConfirm(w)
    \/ StartEditCategory(w)
    \/ EditCategoryPick(w)
    \/ EditCategoryName(w)
    \/ Return(w)

\* The editor starts again and activate() constructs the Store anew: the
\* JSON-document Store from its file, the relational Store on its tables,
\* which CREATE TABLE IF NOT EXISTS leaves as they are.
Restart ==
    LET r == IF backend = "json" THEN JsonConstructor(file)
             ELSE [data |-> data, file |-> file]
    IN /\ r.data.lastCategoryId <= MaxCategoryId
       /\ data' = r.data
       /\ file' = r.file
       /\ last' = [op |-> "init", ok |-> TRUE, rowid |-> 0, err |-> FALSE]
       /\ issuedCategoryIds' =
              issuedCategoryIds \cup (Ids(r.data.categories) \ Ids(data.categories))
       /\ wf' = [w \in Slots |-> IdleWf]
       /\ UNCHANGED <<backend, issuedProjectIds>>

\* After construction: the JSON-document Store has loaded a file that was
\* not there and created the sentinel; the relational Store has created
\* its empty tables.
Init ==
    /\ backend \in {"json", "sql"}
    /\ data = IF backend = "json" THEN JsonConstructor(NoFile).data ELSE EmptyData
    /\ file = IF backend = "json" THEN JsonConstructor(NoFile).file ELSE NoFile
    /\ last = [op |-> "init", ok |-> TRUE, rowid |-> 0, err |-> FALSE]
    /\ issuedCategoryIds = Ids(data.categories)
    /\ issuedProjectIds = {}
    /\ wf = [w \in Slots |-> IdleWf]

Next ==
    \/ Restart
    \/ AddCategory
    \/ DeleteCategory
    \/ EditCategory
    \/ AddProject
    \/ UpdateProject
    \/ DeleteProject

Spec == Init /\ [][Next]_vars

\* The Store under the calls that the claims about projects are made of.
NextProjects ==
    \/ AddBackendCategory
    \/ DeleteCategory
    \/ AddAnyProject
    \/ UpdateAnyProject
    \/ DeleteProject

SpecProjects == Init /\ [][NextProjects]_vars

\* The content of the backing file of the JSON-document Store is damaged
\* while the editor is not running: JSON.parse will throw on it.
CorruptTheFile ==
    /\ backend = "json"
    /\ file # CorruptFile
    /\ file' = CorruptFile
    /\ UNCHANGED <<backend, data, last, issuedCategoryIds, issuedProjectIds, wf>>

\* The Store constructed again and again on a file that Store calls fill
\* and that may get damaged in between.
NextPersistence ==
    \/ Restart
    \/ CorruptTheFile
    \/ AddBackendCategory
    \/ AddAnyProject

SpecPersistence == Init /\ [][NextPersistence]_vars

\* The open-menu command, run between calls that fill the Store with
\* projects of several categories and of none.
AddMenuProject ==
    \E project \in MenuProjectInputs : CallAddProject(project)

NextMenu ==
    \/ wf[1].pc = "idle" /\ AddBackendCategory
    \/ wf[1].pc = "idle" /\ DeleteCategory
    \/ wf[1].pc = "idle" /\ AddMenuProject
    \/ StartShowProjectMenu(1)
    \/ MenuCategory(1)
    \/ MenuProject(1)
    \/ Return(1)

SpecMenu == Init /\ [][NextMenu]_vars

\* The Store driven by the commands alone, one command at a time.
NextWorkflow == Workflow(1)

SpecWorkflow == Init /\ [][NextWorkflow]_vars

\* Two commands in progress at once: registerCommand puts no lock around
\* the handlers, so a second command can be started, and can run to its
\* end, while the first waits at a prompt.  One handler adds and edits
\* projects while the other adds and deletes categories.
NextInterleaving ==
    \/ StartAddProject(1)
    \/ AddProjectCategory(1)
    \/ AddProjectName(1)
    \/ AddProjectLanguage(1)
    \/ AddProjectPath(1)
    \/ AddProjectUses(1)
    \/ AddProjectEnv(1)
    \/ StartEditProject(1)
    \/ EditProjectPick(1)
    \/ EditProjectName(1)
    \/ EditProjectLanguage(1)
    \/ EditProjectPath(1)
    \/ EditProjectUses(1)
    \/ EditProjectEnv(1)
    \/ EditProjectCategory(1)
    \/ Return(1)
    \/ StartAddCategory(2)
    \/ AddCategoryName(2)
    \/ StartDeleteCategory(2)
    \/ DeleteCategoryPick(2)
    \/ DeleteCategoryConfirm(2)
    \/ Return(2)

SpecInterleaving == Init /\ [][NextInterleaving]_vars

---------------------------------------------------------------------------
(* Properties.                                                             *)

Categories == Range(data.categories)

Projects == Range(data.projects)

\* The categories (projects) a step adds.
NewCategoryIds == Ids(data'.categories) \ Ids(data.categories)

NewProjectIds == Ids(data'.projects) \ Ids(data.projects)

\* C1: every stored project's category_id is the id of a category that
\* exists, whatever calls were made.  Stated for the JSON-document Store,
\* whose addProject and updateProject store the category_id they are given.
C1_ReferentialIntegrity ==
    backend = "json" =>
        \A p \in Projects : p.category_id \in Ids(data.categories)

\* C2: once the Store is initialized, the sentinel category exists in every
\* state.  Stated for the JSON-document Store, whose constructor creates
\* the sentinel, under the name the code gives it.
C2_SentinelAlwaysExists ==
    backend = "json" => Unamed \in Names(data.categories)

\* C3: a command in which some prompt or pick came back without an answer
\* ends without having made a mutating Store call.
C3_NoAnswerNoStoreCall ==
    \A w \in Slots :
        (wf[w].pc = "done" /\ wf[w].noAnswer) => wf[w].calls = 0

\* C4: deleteCategory(id) on an existing category removes, in the one
\* step, that category and exactly the projects whose category_id is id;
\* the other categories and projects stay as they were, in their order.
C4_CascadeDelete ==
    [][\A id \in CategoryIdInputs :
          (CallDeleteCategory(id) /\ id \in Ids(data.categories)) =>
              /\ Range(data'.categories) = {c \in Categories : c.id # id}
              /\ Range(data'.projects) = {p \in Projects : p.category_id # id}
              /\ Len(data'.categories) = Len(data.categories) - 1
              /\ Len(data'.projects) =
                     Cardinality({i \in DOMAIN data.projects :
                                     data.projects[i].category_id # id})
              /\ last'.ok]_vars

\* C4 witness: a deleteCategory has just removed a category together with
\* one of the two projects created, and the project of the other category
\* is still there.
C4_Witness ==
    /\ last.op = "deleteCategory"
    /\ last.ok
    /\ issuedProjectIds = {1, 2}
    /\ Cardinality(issuedCategoryIds \ Ids(data.categories)) = 1
    /\ Len(data.projects) = 1
    /\ \A p \in Projects : p.category_id \in Ids(data.categories)

\* C5: no two categories have the same name, and every stored name is
\* non-empty and equal to its trimmed form.
C5_NamesUniqueTrimmedNonEmpty ==
    /\ \A i, j \in DOMAIN data.categories :
           data.categories[i].name = data.categories[j].name => i = j
    /\ \A c \in Categories : c.name # <<>> /\ c.name = Trim(c.name)

\* C6: every id a step assigns is greater than every id of that kind
\* assigned before, deleted records included, and no two records of a kind
\* share an id.
C6_IdsMonotonicNeverReused ==
    /\ [][/\ \A i \in NewCategoryIds : \A j \in issuedCategoryIds : i > j
          /\ \A i \in NewProjectIds : \A j \in issuedProjectIds : i > j]_vars
    /\ [](/\ \A i, j \in DOMAIN data.categories :
                data.categories[i].id = data.categories[j].id => i = j
          /\ \A i, j \in DOMAIN data.projects :
                data.projects[i].id = data.projects[j].id => i = j)

\* C6 witness: a category was deleted and the category added after that
\* has an id above the deleted one's.
C6_Witness ==
    /\ last.op = "addCategory"
    /\ last.ok
    /\ issuedCategoryIds = {1, 2}
    /\ Ids(data.categories) = {2}

\* C7: addCategory with an empty or blank name fails and changes neither
\* the categories, nor the projects, nor the id counters.
C7_BlankNameRejected ==
    [][\A name \in NameInputs :
          (CallAddCategory(name) /\ Trim(name) = <<>>) =>
              (~last'.ok /\ data' = data)]_vars

\* C8: addCategory with a name whose trimmed form is the name of an
\* existing category fails and leaves the categories as they were.
C8_DuplicateNameRejected ==
    [][\A name \in NameInputs :
          (CallAddCategory(name) /\ Trim(name) \in Names(data.categories)) =>
              (~last'.ok /\ data'.categories = data.categories)]_vars

\* C9: for a name that is not blank and whose trimmed form is not yet a
\* category's name, after addCategory(name) getCategories holds exactly one
\* category with the trimmed name, and its id was no category's id before.
C9_AddThenGet ==
    [][\A name \in NameInputs :
          (/\ CallAddCategory(name)
           /\ Trim(name) # <<>>
           /\ Trim(name) \notin Names(data.categories)) =>
              LET got == StoreGetCategories(backend', data')
                  hits == {i \in DOMAIN got : got[i].name = Trim(name)}
              IN /\ Cardinality(hits) = 1
                 /\ \A i \in hits : got[i].id \notin Ids(data.categories)]_vars

\* C10: deleteCategory(id) with an id no category has reports failure and
\* leaves the categories and the projects as they were.
C10_DeleteMissingCategory ==
    [][\A id \in CategoryIdInputs :
          (CallDeleteCategory(id) /\ id \notin Ids(data.categories)) =>
              (/\ ~last'.ok
               /\ data'.categories = data.categories
               /\ data'.projects = data.projects)]_vars

\* C11: editCategory(id, newName) fails and changes nothing (neither the
\* records nor the file) when newName is empty, when no category has the
\* id, or when another category has the trimmed newName; in every other
\* case, renaming a category to its own name included, it succeeds, the
\* category of that id has the trimmed newName, and nothing else changes.
C11_EditCategory ==
    [][last'.op = "editCategory" =>
          \A id \in CategoryIdInputs, newName \in NameInputs :
              CallEditCategory(id, newName) =>
                  IF \/ newName = <<>>
                     \/ id \notin Ids(data.categories)
                     \/ \E c \in Categories :
                            c.id # id /\ c.name = Trim(newName)
                  THEN ~last'.ok /\ data' = data /\ file' = file
                  ELSE /\ last'.ok
                       /\ Len(data'.categories) = Len(data.categories)
                       /\ \A i \in DOMAIN data.categories :
                              /\ data'.categories[i].id = data.categories[i].id
                              /\ data'.categories[i].name =
                                     IF data.categories[i].id = id
                                     THEN Trim(newName)
                                     ELSE data.categories[i].name
                       /\ data'.projects = data.projects]_vars

\* C11 witness: an editCategory has just renamed the sentinel category to
\* 'A' while a second category exists.
C11_Witness ==
    /\ last.op = "editCategory"
    /\ last.ok
    /\ Len(data.categories) = 2
    /\ \E c \in Categories : c.id = 1 /\ c.name = <<"A">>

\* C12: addProject called without a category_id (and with a name and a
\* path) stores the new project under the id of the sentinel category,
\* which exists.  Stated for the JSON-document Store, the one that has a
\* sentinel.
C12_DefaultCategoryIsSentinel ==
    [][(backend = "json" /\ last'.op = "addProject") =>
          \A project \in ProjectInputs :
              (/\ CallAddProject(project)
               /\ project.category_id = NoId
               /\ project.name # <<>>
               /\ project.path # <<>>) =>
                  /\ Cardinality(NewProjectIds) = 1
                  /\ \A p \in Range(data'.projects) :
                        p.id \in NewProjectIds =>
                            \E c \in Range(data'.categories) :
                                c.name = Unamed /\ c.id = p.category_id]_vars

\* C13: addProject with an empty name or an empty path fails and leaves the
\* projects and the project id counter as they were; with a name and a path
\* it succeeds, adds exactly one project and gives it the next project id.
\* Stated for the calls whose category_id names an existing category, which
\* no Store has a reason to refuse.
C13_AddProject ==
    [][last'.op = "addProject" =>
          \A project \in AnyProjectInputs :
              (/\ CallAddProject(project)
               /\ project.category_id \in Ids(data.categories)) =>
                  IF project.name = <<>> \/ project.path = <<>>
                  THEN /\ ~last'.ok
                       /\ data'.projects = data.projects
                       /\ data'.lastProjectId = data.lastProjectId
                  ELSE /\ last'.ok
                       /\ Len(data'.projects) = Len(data.projects) + 1
                       /\ NewProjectIds = {data.lastProjectId + 1}
                       /\ data'.lastProjectId = data.lastProjectId + 1]_vars

\* C14: updateProject(id, {}) on an existing project fails and leaves the
\* project as it was.
C14_UpdateEmptyFieldSet ==
    [][last'.op = "updateProject" =>
          \A id \in ProjectIdInputs :
              (CallUpdateProject(id, <<>>) /\ id \in Ids(data.projects)) =>
                  (~last'.ok /\ data'.projects = data.projects)]_vars

\* C15: updateProject(id, fields) with a non-empty field set on an existing
\* project succeeds and sets exactly the named members to the supplied
\* values: the project's id and its other members, every other project and
\* every category stay as they were.  Stated for the field sets whose
\* category_id, if they have one, names an existing category.
C15_UpdateChangesNamedFieldsOnly ==
    [][last'.op = "updateProject" =>
          \A id \in ProjectIdInputs, project \in FieldSetInputs :
              (/\ CallUpdateProject(id, project)
               /\ DOMAIN project # {}
               /\ "category_id" \in DOMAIN project =>
                      project["category_id"] \in Ids(data.categories)
               /\ id \in Ids(data.projects)) =>
                  /\ last'.ok
                  /\ data'.categories = data.categories
                  /\ Len(data'.projects) = Len(data.projects)
                  /\ \A i \in DOMAIN data.projects :
                        IF data.projects[i].id = id
                        THEN \A f \in ProjectFields \cup {"id"} :
                                data'.projects[i][f] =
                                    IF f \in DOMAIN project THEN project[f]
                                    ELSE data.projects[i][f]
                        ELSE data'.projects[i] = data.projects[i]]_vars

\* C16: updateProject(id, fields) with an id no project has fails and
\* leaves the projects as they were.
C16_UpdateMissingProject ==
    [][last'.op = "updateProject" =>
          \A id \in ProjectIdInputs, project \in UpdateInputs :
              (CallUpdateProject(id, project) /\ id \notin Ids(data.projects)) =>
                  (~last'.ok /\ data'.projects = data.projects)]_vars

\* C17: deleteProject(id) on an existing project returns true and removes
\* that project alone, the categories and the other projects staying as
\* they were; on an id no project has it returns false and changes nothing.
C17_DeleteProject ==
    [][last'.op = "deleteProject" =>
          \A id \in ProjectIdInputs :
              CallDeleteProject(id) =>
                  /\ data'.categories = data.categories
                  /\ data'.projects =
                         SelectSeq(data.projects, LAMBDA p : p.id # id)
                  /\ last'.ok <=> id \in Ids(data.projects)]_vars

\* C18: after a successful addProject(p), for p with a name and a path,
\* getProject of the new id returns p's members together with the new id
\* and the resolved category_id: the one supplied, or the sentinel's id
\* when none was supplied.  Stated for the JSON-document Store, the one
\* that has getProject.
C18_AddThenGetProject ==
    [][(backend = "json" /\ last'.op = "addProject") =>
          \A project \in AnyProjectInputs :
              (/\ CallAddProject(project)
               /\ project.name # <<>>
               /\ project.path # <<>>) =>
                  /\ last'.ok
                  /\ \E id \in NewProjectIds :
                        LET got == JsonGetProject(data', id) IN
                        /\ got # NoProject
                        /\ got.id = id
                        /\ \A f \in ProjectFields \ {"category_id"} :
                              got[f] = project[f]
                        /\ IF project.category_id # NoId
                           THEN got.category_id = project.category_id
                           ELSE \E c \in Categories :
                                   c.name = Unamed /\ got.category_id = c.id]_vars

\* C19: getProjects returns every stored project, each with the current
\* name of the category its category_id refers to; and after a successful
\* editCategory(id, newName) no project record has changed and every
\* project of that category is returned with the trimmed newName as its
\* category_name.
C19_GetProjectsJoinsCurrentName ==
    /\ [](LET got == StoreGetProjects(backend, data) IN
          /\ Len(got) = Len(data.projects)
          /\ \A p \in Projects :
                \E i \in DOMAIN got :
                    /\ \A f \in DOMAIN p : got[i][f] = p[f]
                    /\ \A c \in Categories :
                          c.id = p.category_id => got[i].category_name = c.name)
    /\ [][last'.op = "editCategory" =>
            \A id \in CategoryIdInputs, newName \in NameInputs :
                (CallEditCategory(id, newName) /\ last'.ok) =>
                    /\ data'.projects = data.projects
                    /\ \A r \in Range(StoreGetProjects(backend', data')) :
                          r.category_id = id =>
                              r.category_name = Trim(newName)]_vars

\* C19 as written: after a successful editCategory(id, newName) every
\* project of that category is returned with category_name = newName.
C19_CategoryNameIsNewName ==
    [][last'.op = "editCategory" =>
          \A id \in CategoryIdInputs, newName \in NameInputs :
              (CallEditCategory(id, newName) /\ last'.ok) =>
                  /\ data'.projects = data.projects
                  /\ \A r \in Range(StoreGetProjects(backend', data')) :
                        r.category_id = id => r.category_name = newName]_vars

\* C19 witness: an editCategory has just renamed the sentinel category,
\* which holds a project, to 'A', and getProjects returns that project
\* under the new name.
C19_Witness ==
    /\ last.op = "editCategory"
    /\ last.ok
    /\ Unamed \notin Names(data.categories)
    /\ \E r \in Range(StoreGetProjects(backend, data)) :
          r.category_id = 1 /\ r.category_name = <<"A">>

\* The Store as it is after initialization and one addCategory('Backend'):
\* the call just made is that addCategory, no category was ever deleted and
\* no project ever added.
AfterAddBackend ==
    /\ last.op = "addCategory"
    /\ last.ok
    /\ Backend \in Names(data.categories)
    /\ Cardinality(issuedCategoryIds) = Len(data.categories)
    /\ issuedProjectIds = {}

C21_EditCancelledAtName ==
    [][\A w \in Slots :
          /\ (wf[w].pc = "idle" /\ wf'[w].cmd = "editProject") =>
                 (data' = data /\ file' = file /\ wf'[w].calls = 0)
          /\ (At(w, "editProject", "project") /\ wf'[w] # wf[w]) =>
                 (data' = data /\ file' = file /\ wf'[w].calls = 0)
          /\ \A name \in ProjectNameAnswers :
                (EditProjectNameAnswer(w, name) /\ Falsy(name)) =>
                    /\ wf'[w].pc = "done"
                    /\ wf'[w].calls = 0
                    /\ data' = data
                    /\ file' = file]_vars

\* C21 witness: an edit-project command has returned at the dismissed
\* 'Nome do projeto' box, and the project it had picked is still stored.
C21_Witness ==
    /\ wf[1].cmd = "editProject"
    /\ wf[1].pc = "done"
    /\ wf[1].at = "name"
    /\ wf[1].noAnswer
    /\ wf[1].calls = 0
    /\ Len(data.projects) = 1

\* C22: in the delete-project and delete-category commands the steps before
\* the confirmation make no Store call; at the confirmation, 'Sim' makes
\* exactly one call, of deleteProject (deleteCategory), which removes the
\* record picked before, and 'Não' or no answer leaves the Store's records
\* and file as they were, no call made.
C22_DeleteOnlyWhenConfirmed ==
    [][\A w \in Slots :
          /\ (\/ /\ wf[w].pc = "idle"
                 /\ wf'[w].cmd \in {"deleteProject", "deleteCategory"}
              \/ /\ wf[w].cmd \in {"deleteProject", "deleteCategory"}
                 /\ wf[w].pc \in {"project", "category"}
                 /\ wf'[w] # wf[w]) =>
                 (data' = data /\ file' = file /\ wf'[w].calls = 0)
          /\ \A confirm \in YesNoAnswers :
                /\ DeleteProjectConfirmAnswer(w, confirm) =>
                      IF confirm = Sim
                      THEN /\ wf'[w].calls = 1
                           /\ last'.op = "deleteProject"
                           /\ wf[w].projectPick.id \in Ids(data.projects)
                           /\ Ids(data'.projects) =
                                  Ids(data.projects) \ {wf[w].projectPick.id}
                           /\ data'.categories = data.categories
                      ELSE /\ wf'[w].calls = 0
                           /\ data' = data
                           /\ file' = file
                /\ DeleteCategoryConfirmAnswer(w, confirm) =>
                      IF confirm = Sim
                      THEN /\ wf'[w].calls = 1
                           /\ last'.op = "deleteCategory"
                           /\ wf[w].categoryPick.id \in Ids(data.categories)
                           /\ Ids(data'.categories) =
                                  Ids(data.categories) \ {wf[w].categoryPick.id}
                      ELSE /\ wf'[w].calls = 0
                           /\ data' = data
                           /\ file' = file]_vars

\* C22 witness: a delete-project command has ended after its one
\* deleteProject call, which removed the only project.
C22_Witness ==
    /\ wf[1].cmd = "deleteProject"
    /\ wf[1].pc = "done"
    /\ wf[1].at = "confirm"
    /\ wf[1].calls = 1
    /\ last.op = "deleteProject"
    /\ last.ok
    /\ data.projects = <<>>
    /\ issuedProjectIds = {1}

\* C23: an add-project command whose addProject call succeeded and whose
\* workspace descriptor file could not be created still ends with its
\* success message and no error message, and the project stays stored.
C23_WorkspaceFailureNotFatal ==
    \A w \in Slots :
        (/\ wf[w].cmd = "addProject"
         /\ wf[w].pc = "done"
         /\ wf[w].workspace = "throws") =>
            /\ wf[w].infos = 1
            /\ wf[w].errors = 0
            /\ last.op = "addProject"
            /\ last.ok
            /\ Len(data.projects) = 1

\* C24: a command whose Store call returned its failure value has ended
\* with a failure message shown.
C24_StoreFailureIsReported ==
    \A w \in Slots :
        (/\ wf[w].pc = "done"
         /\ wf[w].calls = 1
         /\ ~last.ok) =>
            wf[w].errors >= 1

\* C25: within one invocation of a command at most one mutating Store call
\* is made; the Store's records and file change only in a step that makes
\* such a call; and the step that makes the call, failed or not, is the
\* command's last, so no call follows a failed one.
C25_NoRetry ==
    /\ [](\A w \in Slots :
             /\ wf[w].calls <= 1
             /\ wf[w].calls = 1 => wf[w].pc = "done")
    /\ [][/\ (data' # data \/ file' # file \/ last' # last) =>
                \E w \in Slots : /\ wf[w].calls = 0
                                 /\ wf'[w].calls = 1
                                 /\ wf'[w].pc = "done"
          /\ \A w \in Slots :
                (wf[w].pc = "done" /\ wf[w].calls = 1 /\ ~last.ok) =>
                    (data' = data /\ file' = file /\ wf'[w] = IdleWf)]_vars

\* C25 witness: an edit-project command has ended after its one
\* updateProject call, which failed.
C25_Witness ==
    /\ wf[1].cmd = "editProject"
    /\ wf[1].pc = "done"
    /\ wf[1].calls = 1
    /\ last.op = "updateProject"
    /\ ~last.ok

\* C26: a command that has ended at a prompt that came back without an
\* answer, no Store call made, has shown no error message and no success
\* message; and every step in which a prompt comes back empty and the
\* command returns at once shows none either.
C26_CancelIsSilent ==
    /\ [](\A w \in Slots :
             (wf[w].pc = "done" /\ wf[w].noAnswer /\ wf[w].calls = 0) =>
                 (wf[w].errors = 0 /\ wf[w].infos = 0 /\ wf[w].at # "idle"))
    /\ [][\A w \in Slots :
             (/\ wf[w].pc \notin {"idle", "done"}
              /\ wf'[w].pc = "done"
              /\ wf'[w].noAnswer
              /\ wf'[w].calls = 0) =>
                 (wf'[w].errors = 0 /\ wf'[w].infos = 0 /\ UNCHANGED store)]_vars

\* C26 witness: an edit-category command has ended at its name box, which
\* came back empty.
C26_Witness ==
    /\ wf[1].cmd = "editCategory"
    /\ wf[1].pc = "done"
    /\ wf[1].at = "name"
    /\ wf[1].noAnswer
    /\ wf[1].calls = 0
    /\ wf[1].errors = 0
    /\ wf[1].infos = 0

\* C27: the add-project, edit-category and delete-category commands started
\* while the Store holds no category, and the edit-project and
\* delete-project commands started while it holds no project, return from
\* their first step, before any prompt and with no Store call, the Store
\* unchanged.
C27_EmptyLoadAborts ==
    [][\A w \in Slots :
          (wf[w].pc = "idle" /\ wf'[w] # wf[w]) =>
              /\ (/\ wf'[w].cmd \in {"addProject", "editCategory", "deleteCategory"}
                  /\ data.categories = <<>>) =>
                     /\ wf'[w].pc = "done"
                     /\ wf'[w].at = "idle"
                     /\ wf'[w].items = <<>>
                     /\ wf'[w].calls = 0
                     /\ UNCHANGED store
              /\ (/\ wf'[w].cmd \in {"editProject", "deleteProject"}
                  /\ data.projects = <<>>) =>
                     /\ wf'[w].pc = "done"
                     /\ wf'[w].at = "idle"
                     /\ wf'[w].items = <<>>
                     /\ wf'[w].calls = 0
                     /\ UNCHANGED store]_vars

\* C27 witness: a delete-category command started on a Store whose last
\* category had been deleted has returned before its first prompt.
C27_Witness ==
    /\ wf[1].cmd = "deleteCategory"
    /\ wf[1].pc = "done"
    /\ wf[1].at = "idle"
    /\ wf[1].calls = 0
    /\ data.categories = <<>>
    /\ issuedCategoryIds # {}

\* C28: no step of the open-menu command changes the Store.  While the
\* category pick is shown, every loaded project is under exactly one key of
\* the grouping: the name of the stored category its category_id names, or
\* 'Sem Categoria' when there is none.  A folder is opened only by the step
\* that answers the project pick, the category pick having been answered
\* before, and the folder is the path of a stored project of the picked
\* group.
C28_MenuGroupsAndOpens ==
    /\ [](\A w \in Slots :
             At(w, "showProjectMenu", "category") =>
                 LET m == CategoriesMap(wf[w].items) IN
                 \A i \in DOMAIN wf[w].items :
                     LET p == wf[w].items[i]
                         named == {c \in Range(data.categories) :
                                       c.id = p.category_id}
                         groups == {k \in DOMAIN m : p \in Range(m[k])}
                     IN /\ Cardinality(groups) = 1
                        /\ \A k \in groups :
                              IF named = {} THEN k = SemCategoria
                              ELSE \A c \in named : k = c.name)
    /\ [][\A w \in Slots :
             /\ ((wf[w].cmd = "showProjectMenu" \/ wf'[w].cmd = "showProjectMenu")
                 /\ wf'[w] # wf[w]) => UNCHANGED store
             /\ (wf'[w].opened # Undefined /\ wf'[w].opened # wf[w].opened) =>
                    /\ At(w, "showProjectMenu", "project")
                    /\ wf[w].categoryPick # NoPick
                    /\ ~wf'[w].noAnswer
                    /\ \E p \in Range(StoreGetProjects(backend, data)) :
                          LET named == {c \in Range(data.categories) :
                                            c.id = p.category_id}
                          IN /\ p.path = wf'[w].opened
                             /\ IF named = {}
                                THEN wf[w].categoryPick.label = SemCategoria
                                ELSE \A c \in named :
                                        wf[w].categoryPick.label = c.name]_vars

\* C28 witness: with a project at '/x' in a stored category and a project
\* at '/y' whose category is not stored, the menu has opened '/y'.
C28_Witness ==
    /\ wf[1].cmd = "showProjectMenu"
    /\ wf[1].pc = "done"
    /\ wf[1].at = "project"
    /\ wf[1].opened = PathY
    /\ Len(data.projects) = 2
    /\ \E p, q \in Range(data.projects) :
          /\ p.path = PathX
          /\ p.category_id \in Ids(data.categories)
          /\ q.path = PathY
          /\ q.category_id \notin Ids(data.categories)

\* C29: in the JSON-document Store, after a mutating call that returned
\* success the file holds the document of the records in memory, and a
\* Store constructed from that file holds the same categories, projects
\* and id counters.
C29_PersistedEqualsMemory ==
    (backend = "json" /\ last.op # "init" /\ last.ok) =>
        /\ file = SaveFile(data)
        /\ JsonConstructor(file).data = data

\* C30: constructing the JSON-document Store on a file whose content cannot
\* be parsed succeeds and leaves the Store with no project, the project
\* counter at zero and exactly one category, the sentinel, created from
\* the category counter at zero; nothing of the records held before stays,
\* and the file is rewritten with that document.
C30_UnparseableFileStartsFresh ==
    [][(Restart /\ backend = "json" /\ file = CorruptFile) =>
          /\ last'.op = "init"
          /\ last'.ok
          /\ data'.projects = <<>>
          /\ data'.lastProjectId = 0
          /\ data'.categories = <<[id |-> 1, name |-> Unamed]>>
          /\ data'.lastCategoryId = 1
          /\ file' = SaveFile(data')]_vars

\* C30 witness: a Store that had held a second category and a project has
\* been constructed anew and holds the sentinel alone; only a damaged file
\* loses them.
C30_Witness ==
    /\ backend = "json"
    /\ last.op = "init"
    /\ issuedCategoryIds = {1, 2}
    /\ issuedProjectIds # {}
    /\ data.projects = <<>>
    /\ data.lastProjectId = 0
    /\ data.categories = <<[id |-> 1, name |-> Unamed]>>
    /\ file = SaveFile(data)

\* C31: when an add-project command waits at a prompt with a category
\* picked, or an edit-project command waits at its category pick, and a
\* delete-category command of the other handler has meanwhile run to its
\* end and deleted that category (one the pick still shows; not the
\* sentinel, which stays stored), the addProject / updateProject call that
\* ends the first command leaves no project whose category_id names no
\* stored category.
C31_NoDanglingCategoryAfterInterleaving ==
    [][\A w, v \in Slots :
          (/\ w # v
           /\ wf[v].cmd = "deleteCategory"
           /\ wf[v].pc = "done"
           /\ wf[v].calls = 1
           /\ last.op = "deleteCategory"
           /\ last.ok
           /\ backend = "json" => Unamed \in Names(data.categories)
           /\ \/ /\ wf[w].cmd = "addProject"
                 /\ wf[w].pc \in {"name", "language", "path", "uses", "env"}
                 /\ wf[w].categoryPick.id \notin Ids(data.categories)
              \/ /\ At(w, "editProject", "category")
                 /\ \E item \in Range(wf[w].items) :
                       item.id \notin Ids(data.categories)
           /\ wf'[w].pc = "done"
           /\ wf'[w].calls = 1) =>
              \A p \in Range(data'.projects) :
                  p.category_id \in Ids(data'.categories)]_vars

\* C32: an editCategory(id, newName) that returns true leaves the ids of
\* the categories, every category of another id, both id counters and
\* every project as they were: the category of that id is stored once,
\* before and after, and the projects whose category_id is id are the
\* same after as before.
C32_EditCategoryFrame ==
    [][(last'.op = "editCategory" /\ last'.ok) =>
          \A id \in CategoryIdInputs, newName \in NameInputs :
              CallEditCategory(id, newName) =>
                  /\ [i \in DOMAIN data'.categories |-> data'.categories[i].id]
                         = [i \in DOMAIN data.categories |-> data.categories[i].id]
                  /\ Cardinality({i \in DOMAIN data'.categories :
                                      data'.categories[i].id = id}) = 1
                  /\ \A c \in Range(data.categories) :
                         c.id # id => c \in Range(data'.categories)
                  /\ data'.lastCategoryId = data.lastCategoryId
                  /\ data'.lastProjectId = data.lastProjectId
                  /\ data'.projects = data.projects
                  /\ {p \in Range(data'.projects) : p.category_id = id}
                         = {p \in Range(data.projects) : p.category_id = id}
                  /\ issuedCategoryIds' = issuedCategoryIds]_vars

\* C32 witness: an editCategory has renamed category 1 to 'A' while it
\* holds a project and a second category holds another.
C32_Witness ==
    /\ last.op = "editCategory"
    /\ last.ok
    /\ \E c \in Range(data.categories) : c.id = 1 /\ c.name = <<"A">>
    /\ \E p, q \in Range(data.projects) :
          /\ p.category_id = 1
          /\ q.category_id = 2
          /\ 2 \in Ids(data.categories)

\* C33: constructing the JSON-document Store on the file the Store wrote
\* itself: when a category of the file has the sentinel name, the Store
\* holds the categories, projects and counters it held and the file is not
\* rewritten; when none has, one category with the sentinel name and the
\* next category id is appended, lastCategoryId advances by one, and the
\* projects and lastProjectId are as they were.  Constructing once more
\* changes nothing.
C33_InitIsIdempotent ==
    [][(Restart /\ backend = "json" /\ file.kind = "doc") =>
          /\ Load(file) = data
          /\ IF \E c \in Range(data.categories) : c.name = Unamed
             THEN data' = data /\ file' = file
             ELSE /\ data'.categories =
                         Append(data.categories,
                                [id |-> data.lastCategoryId + 1, name |-> Unamed])
                  /\ data'.lastCategoryId = data.lastCategoryId + 1
                  /\ data'.projects = data.projects
                  /\ data'.lastProjectId = data.lastProjectId
          /\ JsonConstructor(file').data = data'
          /\ JsonConstructor(file').file = file']_vars

\* C33 witness: a Store holding the sentinel, a second category and a
\* project has been constructed again from its file.
C33_Witness ==
    /\ backend = "json"
    /\ last.op = "init"
    /\ Len(data.categories) = 2
    /\ data.categories[1] = [id |-> 1, name |-> Unamed]
    /\ data.lastCategoryId = 2
    /\ Len(data.projects) >= 1
    /\ file = SaveFile(data)

====
